---- MODULE Spec2Model ----
(***************************************************************************)
(* Model of the cluster coordinator core of cluster-coordinator/server.py: *)
(* the node registry (self.nodes), the task store and pending queue        *)
(* (self.tasks, self.task_queue), the channel map (self.connections), the  *)
(* per-connection handler register_handler and the HTTP submit endpoint.   *)
(*                                                                         *)
(* The coordinator runs on one asyncio event loop: code between two awaits *)
(* is one atomic step.  Every action below is one such stretch of code.    *)
(***************************************************************************)
EXTENDS Integers, Sequences, FiniteSets, TLC

\* ---------------------------------------------------------------- bounds
MaxTasks == 2        \* tasks ever submitted under Spec (uuid4 ids are 1, 2, ...)
MaxQueue == 3        \* tasks ever submitted under SpecQueue
MaxRace == 3         \* tasks ever submitted under SpecRace
MaxPriority == 2     \* priorities submitted are 1..MaxPriority
MaxCompleted == 1    \* cap of a node's tasks_completed counter
MaxNodeTasks == 1    \* tasks ever submitted under SpecNode and SpecLive
MaxRegTasks == 1     \* tasks ever submitted under SpecReg
MaxNow == 1          \* the clock time.time() runs from 0 to MaxNow
MaxCalls == 2        \* the register_to_* calls of a node are counted up to here
MaxDrain == 2        \* tasks ever submitted under SpecDrain
MaxGets == 2         \* results of get_available_port before direct calls stop
MaxManifests == 2    \* manifests handed to resolve_port_conflicts
MaxOver == 1         \* loop counter values above the NodePort limit kept apart

\* -------------------------------------------------------------- universe
\* Websocket connections the server may accept.  c1 and c2 come from the same
\* peer address, c3 from another one.
Conns == {"c1", "c2", "c3"}

\* The connections that are opened during one run: two peers at different
\* addresses, or two connections of one address that may overlap.
Universes == {{"c1", "c3"}, {"c1", "c2"}}

\* websocket.remote_address[0]
RemoteAddress(c) == IF c = "c3" THEN "10.0.0.2" ELSE "10.0.0.1"

\* node_id = f"android-{node_ip.replace('.', '-')}"
NodeIdOf(ip) == IF ip = "10.0.0.1" THEN "android-10-0-0-1" ELSE "android-10-0-0-2"

NodeOf(c) == NodeIdOf(RemoteAddress(c))

NodeIds == {NodeOf(c) : c \in Conns}

TaskTypes == {"prime_calculation"}
Results == {"r1"}
None == "None"
\* message.get("task_id") of a frame that carries no task_id
NoTaskId == 0
\* a task id that no submission ever produced (a stale or foreign uuid)
StaleTaskId == MaxTasks + MaxQueue + MaxRace + 1

VARIABLES
    peers,        \* the connections that are opened during this run
    nodes,        \* self.nodes: node_id -> ComputeNode (dict, never shrinks)
    nodeOrder,    \* insertion order of self.nodes (dict order)
    tasks,        \* self.tasks: task_id -> ComputeTask
    task_queue,   \* self.task_queue: list of task ids
    connections,  \* self.connections: node_id -> websocket
    avail,        \* kubernetes_available, slurm_available, munge_available
    now,          \* time.time()
    pc,           \* position of register_handler for each connection
    open,         \* whether the transport of a connection is still up
    handouts,     \* history: task_id -> number of times assign_task popped it
    lastOut,      \* history: frames written to websockets by the last step
    lastReq,      \* history: the call the last step made, and its outcome
    race,         \* history (SpecRace): the request_task calls since the queue
                  \* was last changed by anything else, and what each got
    bcast,        \* the broadcast coroutine: the node ids its loop has still to
                  \* visit, and (history) what it did for those already visited
    registrations, \* history (SpecReg): the register_to_* calls made for
                  \* every node, and the outcomes of the last connect sequence
    pm            \* the PortManager of scripts/portfolio/deploy-portfolio.py:
                  \* used_ports, the running call and (history) its results

vars == <<peers, nodes, nodeOrder, tasks, task_queue, connections, avail, now, pc, open,
          handouts, lastOut, lastReq, race, bcast, registrations, pm>>

\* what the actions below leave to the specification that composes them
aside == <<race, bcast, registrations, pm>>

\* ------------------------------------------------------------ dict helpers
Has(d, k) == k \in DOMAIN d
Put(d, k, v) == [x \in (DOMAIN d) \cup {k} |-> IF x = k THEN v ELSE d[x]]
Del(d, k) == [x \in (DOMAIN d) \ {k} |-> d[x]]
EmptyDict == [x \in {} |-> None]

\* ComputeNode(node_id, ip_address, status="connected", last_seen=time.time())
NewNode(ip, t) ==
    [ip_address |-> ip, status |-> "connected", last_seen |-> t,
     tasks_completed |-> 0, capabilities |-> {}, performance_score |-> 0,
     kubernetes_registered |-> FALSE, slurm_registered |-> FALSE]

\* ComputeTask(task_id, task_type, data, priority)
NewTask(task_type, priority) ==
    [task_type |-> task_type, priority |-> priority, assigned_to |-> None,
     status |-> "pending", result |-> None]

\* a frame written to a websocket
Frame(c, type, task_id) ==
    [to |-> c, type |-> type, task_id |-> task_id, cluster_type |-> None,
     status |-> None]

\* a cluster_registration frame
RegFrame(c, cluster_type, status) ==
    [to |-> c, type |-> "cluster_registration", task_id |-> NoTaskId,
     cluster_type |-> cluster_type, status |-> status]

\* ------------------------------------------------------------- send_to_node
\* The frames send_to_node(node_id, message) writes: one frame to the mapped
\* websocket, or none when the node has no mapping or the write raises (the
\* exception is logged and swallowed).
SendToNode(conns, node_id, type, task_id) ==
    IF Has(conns, node_id)
    THEN IF open[conns[node_id]]
         THEN <<Frame(conns[node_id], type, task_id)>>
         ELSE <<>>
    ELSE <<>>

SendToNode2(conns, node_id, cluster_type, status) ==
    IF Has(conns, node_id)
    THEN IF open[conns[node_id]]
         THEN <<RegFrame(conns[node_id], cluster_type, status)>>
         ELSE <<>>
    ELSE <<>>

\* ------------------------------------------------------------------ add_task
\* list.sort(key=priority, reverse=True) is a stable sort: elements with equal
\* keys keep their relative order.  Computed as an insertion sort that puts
\* each element behind every element whose key is not smaller.
RECURSIVE InsertByPriority(_, _, _)
InsertByPriority(sorted, tid, ts) ==
    IF sorted = <<>>
    THEN <<tid>>
    ELSE IF ts[Head(sorted)].priority >= ts[tid].priority
         THEN <<Head(sorted)>> \o InsertByPriority(Tail(sorted), tid, ts)
         ELSE <<tid>> \o sorted

\* mutant: equal priorities end up newest first (a sort that is not stable,
\* or an ascending sort followed by a reversal)
RECURSIVE InsertBeforeEqual(_, _, _)
InsertBeforeEqual(sorted, tid, ts) ==
    IF sorted = <<>>
    THEN <<tid>>
    ELSE IF ts[Head(sorted)].priority > ts[tid].priority
         THEN <<Head(sorted)>> \o InsertBeforeEqual(Tail(sorted), tid, ts)
         ELSE <<tid>> \o sorted

RECURSIVE SortTiesReversed(_, _)
SortTiesReversed(q, ts) ==
    IF q = <<>>
    THEN <<>>
    ELSE InsertBeforeEqual(SortTiesReversed(SubSeq(q, 1, Len(q) - 1), ts), q[Len(q)], ts)

RECURSIVE SortByPriority(_, _)
SortByPriority(q, ts) ==
    IF q = <<>>
    THEN <<>>
    ELSE InsertByPriority(SortByPriority(SubSeq(q, 1, Len(q) - 1), ts), q[Len(q)], ts)

\* mutant: ids are drawn from a space of one, the second task gets the id of
\* the first
FreshTaskIdReused(ts) == 1

\* str(uuid.uuid4()): an id no earlier task has; ids are numbered in
\* submission order
FreshTaskId(ts) == Cardinality(DOMAIN ts) + 1

\* add_task(task_type, data, priority): the store and queue afterwards
AddTask(q, ts, task_type, priority) ==
    LET task_id == FreshTaskId(ts)
        ts2 == Put(ts, task_id, NewTask(task_type, priority))
    IN [tasks |-> ts2,
        queue |-> SortByPriority(Append(q, task_id), ts2),
        task_id |-> task_id]

\* --------------------------------------------------------------- assign_task
\* mutant: the head of the queue is read but not removed
AssignTaskNoPop(q, ts, conns, node_id) ==
    IF q = <<>>
    THEN [tasks |-> ts, queue |-> q, popped |-> NoTaskId,
          out |-> SendToNode(conns, node_id, "no_tasks", NoTaskId)]
    ELSE LET task_id == Head(q)
         IN [tasks |-> [ts EXCEPT ![task_id].assigned_to = node_id,
                                  ![task_id].status = "assigned"],
             queue |-> q,
             popped |-> task_id,
             out |-> SendToNode(conns, node_id, "task_assignment", task_id)]

\* mutant: the emptiness test is off by one, the last pending task is never
\* handed out
AssignTaskOffByOne(q, ts, conns, node_id) ==
    IF Len(q) <= 1
    THEN [tasks |-> ts, queue |-> q, popped |-> NoTaskId,
          out |-> SendToNode(conns, node_id, "no_tasks", NoTaskId)]
    ELSE LET task_id == Head(q)
         IN [tasks |-> [ts EXCEPT ![task_id].assigned_to = node_id,
                                  ![task_id].status = "assigned"],
             queue |-> Tail(q),
             popped |-> task_id,
             out |-> SendToNode(conns, node_id, "task_assignment", task_id)]

\* mutant: the status is set but the assignee is not
AssignTaskNoAssignee(q, ts, conns, node_id) ==
    IF q = <<>>
    THEN [tasks |-> ts, queue |-> q, popped |-> NoTaskId,
          out |-> SendToNode(conns, node_id, "no_tasks", NoTaskId)]
    ELSE LET task_id == Head(q)
         IN [tasks |-> [ts EXCEPT ![task_id].status = "assigned"],
             queue |-> Tail(q),
             popped |-> task_id,
             out |-> SendToNode(conns, node_id, "task_assignment", task_id)]

\* mutant: the task is bound only after the await of the send, so the step
\* that pops it leaves it pending
AssignTaskLateStatus(q, ts, conns, node_id) ==
    IF q = <<>>
    THEN [tasks |-> ts, queue |-> q, popped |-> NoTaskId,
          out |-> SendToNode(conns, node_id, "no_tasks", NoTaskId)]
    ELSE LET task_id == Head(q)
         IN [tasks |-> ts,
             queue |-> Tail(q),
             popped |-> task_id,
             out |-> SendToNode(conns, node_id, "task_assignment", task_id)]

\* mutant: a task is popped and bound only when the node has a channel
\* mapping with a transport that is up
AssignTaskIfMapped(q, ts, conns, node_id) ==
    IF q = <<>>
    THEN [tasks |-> ts, queue |-> q, popped |-> NoTaskId,
          out |-> SendToNode(conns, node_id, "no_tasks", NoTaskId)]
    ELSE IF SendToNode(conns, node_id, "task_assignment", Head(q)) = <<>>
         THEN [tasks |-> ts, queue |-> q, popped |-> NoTaskId, out |-> <<>>]
         ELSE LET task_id == Head(q)
              IN [tasks |-> [ts EXCEPT ![task_id].assigned_to = node_id,
                                       ![task_id].status = "assigned"],
                  queue |-> Tail(q),
                  popped |-> task_id,
                  out |-> SendToNode(conns, node_id, "task_assignment", task_id)]

\* assign_task(node_id): store, queue, frames written and the popped id
AssignTask(q, ts, conns, node_id) ==
    IF q = <<>>
    THEN [tasks |-> ts, queue |-> q, popped |-> NoTaskId,
          out |-> SendToNode(conns, node_id, "no_tasks", NoTaskId)]
    ELSE LET task_id == Head(q)
         IN [tasks |-> [ts EXCEPT ![task_id].assigned_to = node_id,
                                  ![task_id].status = "assigned"],
             queue |-> Tail(q),
             popped |-> task_id,
             out |-> SendToNode(conns, node_id, "task_assignment", task_id)]

\* handouts after an assign_task call that popped `popped`
Handed(h, popped) ==
    IF popped = NoTaskId THEN h ELSE [h EXCEPT ![popped] = @ + 1]

Step(kind, c, task_id) == [kind |-> kind, conn |-> c, task_id |-> task_id]

\* no PortManager has been constructed yet
NoPortManager ==
    [pc |-> "new", cluster |-> {}, used_ports |-> {}, port |-> 0, caller |-> "none",
     before |-> {}, todo |-> <<>>, manifests |-> 0, returned |-> <<>>, out |-> <<>>]

\* ---------------------------------------------------------------- __init__
\* The probes of lines 61-63 may each find its backend or not.
Avails == [kubernetes : BOOLEAN, slurm : BOOLEAN, munge : BOOLEAN]

NoBackend == [kubernetes |-> FALSE, slurm |-> FALSE, munge |-> FALSE]

InitOn(universes, avails) ==
    /\ peers \in universes
    /\ nodes = EmptyDict
    /\ nodeOrder = <<>>
    /\ tasks = EmptyDict
    /\ task_queue = <<>>
    /\ connections = EmptyDict
    /\ now = 0
    /\ avail \in avails
    /\ pc = [c \in Conns |-> "closed"]
    /\ open = [c \in Conns |-> FALSE]
    /\ handouts = EmptyDict
    /\ lastOut = <<>>
    /\ lastReq = Step("init", None, NoTaskId)
    /\ race = [m |-> 0, out |-> EmptyDict]
    /\ bcast = [running |-> FALSE, snapshot |-> {}, todo |-> <<>>, done |-> <<>>]
    /\ registrations =
          [calls |-> [n \in NodeIds |-> [kubernetes |-> 0, slurm |-> 0]],
           last |-> [conn |-> None, kubernetes |-> "none", slurm |-> "none"]]
    /\ pm = NoPortManager

\* a host with no Kubernetes, SLURM or MUNGE: every probe fails
InitWith(universes) == InitOn(universes, {NoBackend})

Init == InitWith(Universes)

\* ---------------------------------------------------------- register_handler
\* mutant: a fresh ComputeNode is stored on every connect
RegisteredFresh(ns, node_id, ip, t) == Put(ns, node_id, NewNode(ip, t))

\* lines 83-94: the registry after a connection from node_id registered
Registered(ns, node_id, ip, t) ==
    IF Has(ns, node_id)
    THEN [ns EXCEPT ![node_id].status = "connected", ![node_id].last_seen = t]
    ELSE Put(ns, node_id, NewNode(ip, t))

\* mutant: the error path drops every channel mapping
CleanedConnectionsAll(conns, node_id) == EmptyDict

\* mutant: the finally block leaves the channel mapping in place
CleanedConnectionsKeep(conns, node_id) == conns

\* lines 117-122, the finally block: channel map and registry afterwards
CleanedConnections(conns, node_id) ==
    IF Has(conns, node_id) THEN Del(conns, node_id) ELSE conns

\* mutant: the disconnect also resets the node's counter
CleanedNodesReset(ns, node_id) ==
    IF Has(ns, node_id)
    THEN [ns EXCEPT ![node_id].status = "disconnected", ![node_id].tasks_completed = 0]
    ELSE ns

\* mutant: the finally block removes the mapping but leaves the status
CleanedNodesStay(ns, node_id) == ns

CleanedNodes(ns, node_id) ==
    IF Has(ns, node_id) THEN [ns EXCEPT ![node_id].status = "disconnected"] ELSE ns

\* A connection is accepted: lines 76-101, up to the await of the welcome send.
Connect(c) ==
    /\ pc[c] = "closed"
    /\ LET node_id == NodeOf(c) IN
        /\ connections' = Put(connections, node_id, c)
        /\ nodes' = Registered(nodes, node_id, RemoteAddress(c), now)
        /\ nodeOrder' = IF Has(nodes, node_id) THEN nodeOrder
                                                ELSE Append(nodeOrder, node_id)
    /\ open' = [open EXCEPT ![c] = TRUE]
    /\ pc' = [pc EXCEPT ![c] = "welcomed"]
    /\ lastOut' = <<Frame(c, "welcome", NoTaskId)>>
    /\ lastReq' = Step("connect", c, NoTaskId)
    /\ UNCHANGED <<peers, tasks, task_queue, avail, now, handouts>>

\* A connection is accepted but the peer is gone before the welcome is written:
\* websocket.send raises ConnectionClosed, the finally block runs.
ConnectAborted(c) ==
    /\ pc[c] = "closed"
    /\ LET node_id == NodeOf(c) IN
        /\ connections' = CleanedConnections(Put(connections, node_id, c), node_id)
        /\ nodes' = CleanedNodes(Registered(nodes, node_id, RemoteAddress(c), now), node_id)
        /\ nodeOrder' = IF Has(nodes, node_id) THEN nodeOrder
                                                ELSE Append(nodeOrder, node_id)
    /\ lastOut' = <<>>
    /\ lastReq' = Step("connect_aborted", c, NoTaskId)
    /\ UNCHANGED <<peers, tasks, task_queue, avail, now, handouts, pc, open>>

\* The peer closes the channel or the transport fails (environment step).
PeerClose(c) ==
    /\ pc[c] # "closed"
    /\ open[c]
    /\ open' = [open EXCEPT ![c] = FALSE]
    /\ lastOut' = <<>>
    /\ lastReq' = Step("peer_close", c, NoTaskId)
    /\ UNCHANGED <<peers, nodes, nodeOrder, tasks, task_queue, connections, avail, now, pc,
                   handouts>>

\* `async for message in websocket` ends or raises ConnectionClosed: the
\* finally block, lines 117-122.
Cleanup(c) ==
    /\ pc[c] = "active"
    /\ ~open[c]
    /\ connections' = CleanedConnections(connections, NodeOf(c))
    /\ nodes' = CleanedNodes(nodes, NodeOf(c))
    /\ pc' = [pc EXCEPT ![c] = "closed"]
    /\ lastOut' = <<>>
    /\ lastReq' = Step("cleanup", c, NoTaskId)
    /\ UNCHANGED <<peers, nodeOrder, tasks, task_queue, avail, now, open, handouts>>

\* ------------------------------------------------- auto_register_to_clusters
\* The frames of the Kubernetes branch, lines 284-294; ok is the result of
\* register_to_kubernetes.
KubernetesFrames(conns, node, node_id, ok) ==
    IF avail.kubernetes /\ ~node.kubernetes_registered /\ ok
    THEN SendToNode2(conns, node_id, "kubernetes", "registered")
    ELSE <<>>

\* The frames of the SLURM branch, lines 297-316; ok is the result of
\* register_to_slurm.
SlurmFrames(conns, node, node_id, ok) ==
    IF avail.slurm /\ ~node.slurm_registered
    THEN IF avail.munge
         THEN IF ok THEN SendToNode2(conns, node_id, "slurm", "registered") ELSE <<>>
         ELSE SendToNode2(conns, node_id, "slurm", "failed")
    ELSE <<>>

\* mutant: a failed registration is remembered as done
AutoRegisteredAlways(node, okK, okS) ==
    [node EXCEPT
       !.kubernetes_registered = @ \/ avail.kubernetes,
       !.slurm_registered = @ \/ (avail.slurm /\ avail.munge)]

\* The node record after auto_register_to_clusters.
AutoRegistered(node, okK, okS) ==
    [node EXCEPT
       !.kubernetes_registered = @ \/ (avail.kubernetes /\ okK),
       !.slurm_registered = @ \/ (avail.slurm /\ avail.munge /\ okS)]

\* Whether auto_register_to_clusters calls send_to_node, i.e. reaches an await
\* at which the event loop may run another handler.
AutoRegisterAwaits(node, okK, okS) ==
    \/ avail.kubernetes /\ ~node.kubernetes_registered /\ okK
    \/ avail.slurm /\ ~node.slurm_registered /\ (~avail.munge \/ okS)

\* line 284: whether register_to_kubernetes is called for the node
KubernetesCalled(node) == avail.kubernetes /\ ~node.kubernetes_registered

\* lines 297-299: whether register_to_slurm is called for the node
SlurmCalled(node) == avail.slurm /\ ~node.slurm_registered /\ avail.munge

\* how a backend's branch of auto_register_to_clusters ended: no attempt was
\* due ("none"), SLURM without MUNGE ("unavailable", line 309), or the
\* result of the register_to_* call
RegisterOutcome(called, refused, ok) ==
    IF called THEN (IF ok THEN "registered" ELSE "failed")
    ELSE IF refused THEN "unavailable" ELSE "none"

Counted(n) == IF n < MaxCalls THEN n + 1 ELSE n

\* the history of register_to_* calls after the connect sequence of c
RegistrationsAfter(c, okK, okS) ==
    LET node_id == NodeOf(c)
        node == nodes[node_id]
        k == KubernetesCalled(node)
        s == SlurmCalled(node)
        refused == avail.slurm /\ ~node.slurm_registered /\ ~avail.munge
    IN [calls |-> [registrations.calls EXCEPT
                     ![node_id].kubernetes = IF k THEN Counted(@) ELSE @,
                     ![node_id].slurm = IF s THEN Counted(@) ELSE @],
        last |-> [conn |-> c,
                  kubernetes |-> RegisterOutcome(k, FALSE, okK),
                  slurm |-> RegisterOutcome(s, refused, okS)]]

\* mutant: a backend whose registration failed is marked unavailable
AvailabilityDemote(av, okK, okS) ==
    [av EXCEPT !.kubernetes = @ /\ okK, !.slurm = @ /\ okS]

\* auto_register_to_clusters reads self.kubernetes_available,
\* self.slurm_available and self.munge_available and assigns none of them,
\* whatever register_to_kubernetes and register_to_slurm return.
Availability(av, okK, okS) == av

\* lines 104-107, resumed after the welcome send: auto_register_to_clusters,
\* and, when it reached no await, assign_task (the eager offer) in the same
\* atomic stretch.  okK and okS are what register_to_kubernetes and
\* register_to_slurm return when they are called.
ConnectSequenceWith(c, okK, okS) ==
    /\ pc[c] = "welcomed"
    /\ LET node_id == NodeOf(c)
           node == nodes[node_id]
           r == AssignTask(task_queue, tasks, connections, node_id)
       IN /\ nodes' = [nodes EXCEPT ![node_id] = AutoRegistered(node, okK, okS)]
          /\ IF AutoRegisterAwaits(node, okK, okS)
             THEN /\ lastOut' = KubernetesFrames(connections, node, node_id, okK)
                                 \o SlurmFrames(connections, node, node_id, okS)
                  /\ lastReq' = Step("auto_register", c, NoTaskId)
                  /\ pc' = [pc EXCEPT ![c] = "offering"]
                  /\ UNCHANGED <<peers, tasks, task_queue, handouts>>
             ELSE /\ tasks' = r.tasks
                  /\ task_queue' = r.queue
                  /\ handouts' = Handed(handouts, r.popped)
                  /\ lastOut' = r.out
                  /\ lastReq' = Step("offer", c, r.popped)
                  /\ pc' = [pc EXCEPT ![c] = "active"]
    /\ avail' = Availability(avail, okK, okS)
    /\ UNCHANGED <<peers, nodeOrder, connections, now, open>>

ConnectSequence(c) ==
    \E okK \in BOOLEAN, okS \in BOOLEAN : ConnectSequenceWith(c, okK, okS)

\* line 107, resumed after a cluster_registration send: assign_task, the
\* eager offer
Offer(c) ==
    /\ pc[c] = "offering"
    /\ LET r == AssignTask(task_queue, tasks, connections, NodeOf(c)) IN
        /\ tasks' = r.tasks
        /\ task_queue' = r.queue
        /\ handouts' = Handed(handouts, r.popped)
        /\ lastOut' = r.out
        /\ lastReq' = Step("offer", c, r.popped)
    /\ pc' = [pc EXCEPT ![c] = "active"]
    /\ UNCHANGED <<peers, nodes, nodeOrder, connections, avail, now, open>>

\* ------------------------------------------------------------ handle_message
\* A request_task frame arrives on c: lines 142-143.
RequestTask(c) ==
    /\ pc[c] = "active"
    /\ open[c]
    /\ LET r == AssignTask(task_queue, tasks, connections, NodeOf(c)) IN
        /\ tasks' = r.tasks
        /\ task_queue' = r.queue
        /\ handouts' = Handed(handouts, r.popped)
        /\ lastOut' = r.out
        /\ lastReq' = Step("request_task", c, r.popped)
    /\ UNCHANGED <<peers, nodes, nodeOrder, connections, avail, now, pc, open>>

\* message.get("success", True), then `if success`
Success(success) == IF success = "absent" THEN TRUE ELSE success = "true"

\* mutant: a task reported as failed is unbound from its node
RecordResultUnbind(ts, task_id, result, success) ==
    IF Has(ts, task_id)
    THEN [ts EXCEPT ![task_id].status = IF Success(success) THEN "completed"
                                                           ELSE "failed",
                    ![task_id].result = result,
                    ![task_id].assigned_to = IF Success(success) THEN @ ELSE None]
    ELSE ts

\* mutant: a task that got its result is dropped from the store
RecordResultPurge(ts, task_id, result, success) ==
    IF Has(ts, task_id) THEN Del(ts, task_id) ELSE ts

\* handle_task_result, lines 151-154: the task store afterwards
RecordResult(ts, task_id, result, success) ==
    IF Has(ts, task_id)
    THEN [ts EXCEPT ![task_id].status = IF Success(success) THEN "completed"
                                                           ELSE "failed",
                    ![task_id].result = result]
    ELSE ts

\* mutant: the counter is bumped before the `task_id in self.tasks` test
CountResultAlways(ns, ts, node_id, task_id) ==
    [ns EXCEPT ![node_id].tasks_completed = @ + 1]

\* handle_task_result, line 156: the registry afterwards
CountResult(ns, ts, node_id, task_id) ==
    IF Has(ts, task_id)
    THEN [ns EXCEPT ![node_id].tasks_completed = @ + 1]
    ELSE ns

\* A task_result frame arrives on c: lines 136-137 and 145-164.
TaskResult(c, task_id, result, success) ==
    /\ pc[c] = "active"
    /\ open[c]
    /\ Has(tasks, task_id) => nodes[NodeOf(c)].tasks_completed < MaxCompleted
    /\ tasks' = RecordResult(tasks, task_id, result, success)
    /\ nodes' = CountResult(nodes, tasks, NodeOf(c), task_id)
    /\ lastOut' = IF Has(tasks, task_id)
                   THEN SendToNode(connections, NodeOf(c), "task_ack", task_id)
                   ELSE <<>>
    /\ lastReq' = Step("task_result", c, task_id)
    /\ UNCHANGED <<peers, nodeOrder, task_queue, connections, avail, now, pc, open,
                   handouts>>

\* -------------------------------------------------------- submit_task_handler
\* mutant: every node of the registry is taken, connected or not
ConnectedNodesAll == nodeOrder

\* lines 592-593: the connected nodes in registry (dict insertion) order
ConnectedNodes == SelectSeq(nodeOrder, LAMBDA n : nodes[n].status = "connected")

\* POST /submit_task with a task_type: lines 589-601.
Submit(task_type, priority, cap) ==
    /\ Cardinality(DOMAIN tasks) < cap
    /\ LET a == AddTask(task_queue, tasks, task_type, priority)
           r == IF ConnectedNodes # <<>>
                THEN AssignTask(a.queue, a.tasks, connections, Head(ConnectedNodes))
                ELSE [tasks |-> a.tasks, queue |-> a.queue, popped |-> NoTaskId,
                      out |-> <<>>]
       IN /\ tasks' = r.tasks
          /\ task_queue' = r.queue
          /\ handouts' = Handed(Put(handouts, a.task_id, 0), r.popped)
          /\ lastOut' = r.out
          /\ lastReq' = Step("submit", None, a.task_id)
    /\ UNCHANGED <<peers, nodes, nodeOrder, connections, avail, now, pc, open>>

\* POST /submit_task without task_type: lines 585-587, status 400.
SubmitRejected ==
    /\ lastOut' = <<>>
    /\ lastReq' = Step("submit_rejected", None, NoTaskId)
    /\ UNCHANGED <<peers, nodes, nodeOrder, tasks, task_queue, connections, avail, now,
                   pc, open, handouts>>

\* -------------------------------------------------------- get_cluster_status
\* lines 548-552: the "tasks" part of the GET /status answer.  The function
\* is synchronous, it reads the state between two steps.
GetClusterStatus ==
    [total |-> Cardinality(DOMAIN tasks),
     pending |-> Len(task_queue),
     completed |-> Cardinality({t \in DOMAIN tasks : tasks[t].status = "completed"})]

\* ------------------------------------------- handle_message, other branches
\* inbound types that no branch of handle_message names; "absent": the frame
\* has no type key, message.get("type") is None
OtherTypes == {"absent", "status"}

\* the capability lists and scores nodes report (the score is not validated)
CapabilityLists == {{"cpu"}}
Scores == {-1}

\* mutant: the if/elif chain ends in an else that treats any other frame as a
\* sign of life
HandleMessageTouchAll(ns, node_id, msg_type, capabilities, score, t) ==
    IF msg_type = "capabilities"
    THEN [ns EXCEPT ![node_id].capabilities = capabilities]
    ELSE IF msg_type = "performance_update"
         THEN [ns EXCEPT ![node_id].performance_score = score]
         ELSE [ns EXCEPT ![node_id].last_seen = t]

\* mutant: a heartbeat also expires every other node whose last_seen is old
HandleMessageExpire(ns, node_id, msg_type, capabilities, score, t) ==
    IF msg_type = "heartbeat"
    THEN [n \in DOMAIN ns |->
            IF n = node_id
            THEN [ns[n] EXCEPT !.last_seen = t]
            ELSE IF ns[n].last_seen < t
                 THEN [ns[n] EXCEPT !.status = "disconnected"]
                 ELSE ns[n]]
    ELSE IF msg_type = "capabilities"
         THEN [ns EXCEPT ![node_id].capabilities = capabilities]
         ELSE IF msg_type = "performance_update"
              THEN [ns EXCEPT ![node_id].performance_score = score]
              ELSE ns

\* mutant: the score is validated, a negative one is stored as 0
HandleMessageClamp(ns, node_id, msg_type, capabilities, score, t) ==
    IF msg_type = "heartbeat"
    THEN [ns EXCEPT ![node_id].last_seen = t]
    ELSE IF msg_type = "capabilities"
         THEN [ns EXCEPT ![node_id].capabilities = capabilities]
         ELSE IF msg_type = "performance_update"
              THEN [ns EXCEPT ![node_id].performance_score =
                                  IF score < 0 THEN 0 ELSE score]
              ELSE ns

\* handle_message, lines 126-140: the registry after a frame of msg_type,
\* for the branches that touch the node record only
HandleMessage(ns, node_id, msg_type, capabilities, score, t) ==
    IF msg_type = "heartbeat"
    THEN [ns EXCEPT ![node_id].last_seen = t]
    ELSE IF msg_type = "capabilities"
         THEN [ns EXCEPT ![node_id].capabilities = capabilities]
         ELSE IF msg_type = "performance_update"
              THEN [ns EXCEPT ![node_id].performance_score = score]
              ELSE ns

\* line 130: the frames written in answer to a frame of msg_type
HandleReply(conns, node_id, msg_type) ==
    IF msg_type = "heartbeat"
    THEN SendToNode(conns, node_id, "heartbeat_ack", NoTaskId)
    ELSE <<>>

\* mutant: send_to_node without its try/except, a failing write propagates
SendToNodeUnguarded(conns, node_id) ==
    Has(conns, node_id) /\ ~open[conns[node_id]]

\* send_to_node, lines 197-201: whether the call raises to its caller.  A
\* failing write is caught and logged, a node with no mapping is skipped.
SendToNodeRaises(conns, node_id) == FALSE

\* the label of a frame in the history
KindOf(msg_type) ==
    IF msg_type \in {"heartbeat", "capabilities", "performance_update"}
    THEN msg_type
    ELSE "other_type"

\* A frame of msg_type arrives on c: line 111 and lines 126-140.  An
\* exception raised below handle_message ends the handler (lines 115-122).
Inbound(c, msg_type, capabilities, score) ==
    /\ pc[c] = "active"
    /\ open[c]
    /\ LET node_id == NodeOf(c)
           ns == HandleMessage(nodes, node_id, msg_type, capabilities, score, now)
       IN IF msg_type = "heartbeat" /\ SendToNodeRaises(connections, node_id)
          THEN /\ connections' = CleanedConnections(connections, node_id)
               /\ nodes' = CleanedNodes(ns, node_id)
               /\ pc' = [pc EXCEPT ![c] = "closed"]
               /\ open' = [open EXCEPT ![c] = FALSE]
               /\ lastOut' = <<>>
          ELSE /\ nodes' = ns
               /\ lastOut' = HandleReply(connections, node_id, msg_type)
               /\ UNCHANGED <<connections, pc, open>>
    /\ lastReq' = Step(KindOf(msg_type), c, NoTaskId)
    /\ UNCHANGED <<peers, nodeOrder, tasks, task_queue, avail, now, handouts>>

Heartbeat(c) == Inbound(c, "heartbeat", {}, 0)

\* message.get("capabilities", [])
Capabilities(c, present, capabilities) ==
    Inbound(c, "capabilities", IF present THEN capabilities ELSE {}, 0)

\* message.get("score", 0.0)
PerformanceUpdate(c, present, score) ==
    Inbound(c, "performance_update", {}, IF present THEN score ELSE 0)

OtherType(c, msg_type) ==
    /\ msg_type \in OtherTypes
    /\ Inbound(c, msg_type, {}, 0)

\* A frame arrives on c that json.loads rejects, or that is JSON but not an
\* object (message.get raises AttributeError), or a task_result whose task_id
\* is unhashable: line 111 raises before anything is changed, `except
\* Exception` logs it, the finally block runs and the handler returns, which
\* closes the connection.
Malformed(c) ==
    /\ pc[c] = "active"
    /\ open[c]
    /\ connections' = CleanedConnections(connections, NodeOf(c))
    /\ nodes' = CleanedNodes(nodes, NodeOf(c))
    /\ pc' = [pc EXCEPT ![c] = "closed"]
    /\ open' = [open EXCEPT ![c] = FALSE]
    /\ lastOut' = <<>>
    /\ lastReq' = Step("malformed", c, NoTaskId)
    /\ UNCHANGED <<peers, nodeOrder, tasks, task_queue, avail, now, handouts>>

\* time passes
Tick ==
    /\ now < MaxNow
    /\ now' = now + 1
    /\ lastOut' = <<>>
    /\ lastReq' = Step("tick", None, NoTaskId)
    /\ UNCHANGED <<peers, nodes, nodeOrder, tasks, task_queue, connections, avail, pc,
                   open, handouts>>

\* ----------------------------------------------------------------- broadcast
\* list(self.connections.keys()): the mapped node ids as a list.  The order
\* of the channel map's keys is not kept in the model; every order is
\* allowed.
KeyOrders(conns) ==
    LET ids == DOMAIN conns
        n == Cardinality(ids)
    IN {q \in [1..n -> ids] : \A i \in 1..n, j \in 1..n : i # j => q[i] # q[j]}

\* what send_to_node(node_id, ...) meets: no mapping, a write that raises, or
\* a write that succeeds
SendOutcome(conns, node_id) ==
    IF ~Has(conns, node_id)
    THEN "unmapped"
    ELSE IF open[conns[node_id]] THEN "sent" ELSE "failed"

\* mutant: the exception of a failing send leaves the for loop
BroadcastRestAbort(todo, outcome) ==
    IF outcome = "failed" THEN <<>> ELSE Tail(todo)

\* line 205: the for loop goes on with the next node id, whatever
\* send_to_node met
BroadcastRest(todo, outcome) == Tail(todo)

\* one iteration of the loop, lines 205-206: the coroutine afterwards
Visited(b, conns) ==
    LET node_id == Head(b.todo)
        outcome == SendOutcome(conns, node_id)
        rest == BroadcastRest(b.todo, outcome)
    IN [running |-> rest # <<>>, snapshot |-> b.snapshot, todo |-> rest,
        done |-> Append(b.done, [node |-> node_id, outcome |-> outcome])]

\* broadcast(message) is called: the key list is taken and, when it is not
\* empty, the first send is made before anything else can run.
BroadcastStart ==
    /\ ~bcast.running
    /\ \E q \in KeyOrders(connections) :
         LET b == [running |-> q # <<>>, snapshot |-> DOMAIN connections,
                   todo |-> q, done |-> <<>>]
         IN IF q = <<>>
            THEN /\ bcast' = b
                 /\ lastOut' = <<>>
            ELSE /\ bcast' = Visited(b, connections)
                 /\ lastOut' = SendToNode(connections, Head(q), "broadcast", NoTaskId)
    /\ lastReq' = Step("broadcast", None, NoTaskId)
    /\ UNCHANGED <<peers, nodes, nodeOrder, tasks, task_queue, connections, avail, now,
                   pc, open, handouts>>

\* the broadcast is resumed after the await of a send: the next iteration
BroadcastNext ==
    /\ bcast.running
    /\ bcast' = Visited(bcast, connections)
    /\ lastOut' = SendToNode(connections, Head(bcast.todo), "broadcast", NoTaskId)
    /\ lastReq' = Step("broadcast_next", None, NoTaskId)
    /\ UNCHANGED <<peers, nodes, nodeOrder, tasks, task_queue, connections, avail, now,
                   pc, open, handouts>>

\* ---------------------------------------------------------------------- Spec
TaskIdInputs == (DOMAIN tasks) \cup {NoTaskId, StaleTaskId}

\* Under Spec and SpecQueue the history variable race is not kept.
NextOn(cap) ==
    \/ \E c \in peers : Connect(c) /\ UNCHANGED aside
    \/ \E c \in peers : ConnectAborted(c) /\ UNCHANGED aside
    \/ \E c \in peers : ConnectSequence(c) /\ UNCHANGED aside
    \/ \E c \in peers : PeerClose(c) /\ UNCHANGED aside
    \/ \E c \in peers : Cleanup(c) /\ UNCHANGED aside
    \/ \E c \in peers : RequestTask(c) /\ UNCHANGED aside
    \/ \E c \in peers, task_id \in TaskIdInputs, result \in Results,
          success \in {"true", "false", "absent"} :
          TaskResult(c, task_id, result, success) /\ UNCHANGED aside
    \/ \E task_type \in TaskTypes, priority \in 1..MaxPriority :
          Submit(task_type, priority, cap) /\ UNCHANGED aside
    \/ SubmitRejected /\ UNCHANGED aside

Next == NextOn(MaxTasks)

Spec == Init /\ [][Next]_vars

\* Two peers at different addresses only: no two connections share a node id.
InitPair == InitWith({{"c1", "c3"}})

SpecPair == InitPair /\ [][Next]_vars

\* One peer and a deeper queue: the ordering of the pending queue.
InitQueue == InitWith({{"c1"}})

NextQueue == NextOn(MaxQueue)

SpecQueue == InitQueue /\ [][NextQueue]_vars

\* Two peers at different addresses racing for the queue; task_result frames,
\* which never touch the queue, are left out of this specification.  race.m is the
\* length of the queue when it was last changed by a submission or a
\* connect-time offer, race.out maps every node that has sent request_task
\* since then to the task id its call popped (NoTaskId: no_tasks).  A second
\* request_task of the same node starts a new round.
RaceAfter ==
    IF lastReq'.kind = "request_task"
    THEN LET n == NodeOf(lastReq'.conn) IN
         IF Has(race.out, n)
         THEN [m |-> Len(task_queue), out |-> Put(EmptyDict, n, lastReq'.task_id)]
         ELSE [race EXCEPT !.out = Put(@, n, lastReq'.task_id)]
    ELSE IF task_queue' # task_queue
         THEN [m |-> Len(task_queue'), out |-> EmptyDict]
         ELSE race

NextRace ==
    \/ \E c \in peers : Connect(c) /\ race' = RaceAfter /\ UNCHANGED <<bcast, registrations, pm>>
    \/ \E c \in peers : ConnectAborted(c) /\ race' = RaceAfter /\ UNCHANGED <<bcast, registrations, pm>>
    \/ \E c \in peers : ConnectSequence(c) /\ race' = RaceAfter /\ UNCHANGED <<bcast, registrations, pm>>
    \/ \E c \in peers : PeerClose(c) /\ race' = RaceAfter /\ UNCHANGED <<bcast, registrations, pm>>
    \/ \E c \in peers : Cleanup(c) /\ race' = RaceAfter /\ UNCHANGED <<bcast, registrations, pm>>
    \/ \E c \in peers : RequestTask(c) /\ race' = RaceAfter /\ UNCHANGED <<bcast, registrations, pm>>
    \/ \E task_type \in TaskTypes, priority \in 1..MaxPriority :
          Submit(task_type, priority, MaxRace) /\ race' = RaceAfter /\ UNCHANGED <<bcast, registrations, pm>>

SpecRace == InitPair /\ [][NextRace]_vars

\* Every frame type of handle_message, malformed frames and the clock.
NextNode ==
    \/ \E c \in peers : Connect(c) /\ UNCHANGED aside
    \/ \E c \in peers : ConnectAborted(c) /\ UNCHANGED aside
    \/ \E c \in peers : ConnectSequence(c) /\ UNCHANGED aside
    \/ \E c \in peers : PeerClose(c) /\ UNCHANGED aside
    \/ \E c \in peers : Cleanup(c) /\ UNCHANGED aside
    \/ \E c \in peers : RequestTask(c) /\ UNCHANGED aside
    \/ \E c \in peers, task_id \in TaskIdInputs, result \in Results,
          success \in {"true", "false"} :
          TaskResult(c, task_id, result, success) /\ UNCHANGED aside
    \/ \E task_type \in TaskTypes :
          Submit(task_type, 1, MaxNodeTasks) /\ UNCHANGED aside
    \/ \E c \in peers : Heartbeat(c) /\ UNCHANGED aside
    \/ \E c \in peers, present \in BOOLEAN, capabilities \in CapabilityLists :
          Capabilities(c, present, capabilities) /\ UNCHANGED aside
    \/ \E c \in peers, present \in BOOLEAN, score \in Scores :
          PerformanceUpdate(c, present, score) /\ UNCHANGED aside
    \/ \E c \in peers, msg_type \in OtherTypes : OtherType(c, msg_type) /\ UNCHANGED aside
    \/ \E c \in peers : Malformed(c) /\ UNCHANGED aside
    \/ Tick /\ UNCHANGED aside

SpecNode == Init /\ [][NextNode]_vars

SpecNodePair == InitPair /\ [][NextNode]_vars

\* The connect sequence with every combination of backends, two peers at
\* different addresses.
InitReg == InitOn({{"c1", "c3"}}, Avails)

NextReg ==
    \/ \E c \in peers : Connect(c) /\ UNCHANGED aside
    \/ \E c \in peers : ConnectAborted(c) /\ UNCHANGED aside
    \/ \E c \in peers, okK \in BOOLEAN, okS \in BOOLEAN :
          /\ ConnectSequenceWith(c, okK, okS)
          /\ registrations' = RegistrationsAfter(c, okK, okS)
          /\ UNCHANGED <<race, bcast, pm>>
    \/ \E c \in peers : Offer(c) /\ UNCHANGED aside
    \/ \E c \in peers : PeerClose(c) /\ UNCHANGED aside
    \/ \E c \in peers : Cleanup(c) /\ UNCHANGED aside
    \/ \E c \in peers : RequestTask(c) /\ UNCHANGED aside
    \/ \E task_type \in TaskTypes :
          Submit(task_type, 1, MaxRegTasks) /\ UNCHANGED aside

SpecReg == InitReg /\ [][NextReg]_vars

\* One peer that connects, works, disconnects and reconnects, with every
\* combination of backends.
InitReconnect == InitOn({{"c1"}}, Avails)

NextReconnect ==
    \/ \E c \in peers : Connect(c) /\ UNCHANGED aside
    \/ \E c \in peers : ConnectAborted(c) /\ UNCHANGED aside
    \/ \E c \in peers : ConnectSequence(c) /\ UNCHANGED aside
    \/ \E c \in peers : Offer(c) /\ UNCHANGED aside
    \/ \E c \in peers : PeerClose(c) /\ UNCHANGED aside
    \/ \E c \in peers : Cleanup(c) /\ UNCHANGED aside
    \/ \E c \in peers, task_id \in TaskIdInputs, result \in Results,
          success \in {"true", "false"} :
          TaskResult(c, task_id, result, success) /\ UNCHANGED aside
    \/ \E task_type \in TaskTypes :
          Submit(task_type, 1, MaxNodeTasks) /\ UNCHANGED aside
    \/ \E c \in peers : Heartbeat(c) /\ UNCHANGED aside
    \/ \E c \in peers, present \in BOOLEAN, capabilities \in CapabilityLists :
          Capabilities(c, present, capabilities) /\ UNCHANGED aside
    \/ \E c \in peers, present \in BOOLEAN, score \in Scores :
          PerformanceUpdate(c, present, score) /\ UNCHANGED aside
    \/ \E c \in peers : Malformed(c) /\ UNCHANGED aside
    \/ Tick /\ UNCHANGED aside

SpecReconnect == InitReconnect /\ [][NextReconnect]_vars

\* Broadcasts while nodes connect, close and are cleaned up.
NextBroadcast ==
    \/ \E c \in peers : Connect(c) /\ UNCHANGED aside
    \/ \E c \in peers : ConnectAborted(c) /\ UNCHANGED aside
    \/ \E c \in peers : ConnectSequence(c) /\ UNCHANGED aside
    \/ \E c \in peers : PeerClose(c) /\ UNCHANGED aside
    \/ \E c \in peers : Cleanup(c) /\ UNCHANGED aside
    \/ \E c \in peers : Malformed(c) /\ UNCHANGED aside
    \/ BroadcastStart /\ UNCHANGED <<race, registrations, pm>>
    \/ BroadcastNext /\ UNCHANGED <<race, registrations, pm>>

SpecBroadcast == Init /\ [][NextBroadcast]_vars

\* The event loop resumes every handler whose await has completed: a handler
\* that can take its next step eventually takes it.  Peers and HTTP clients
\* owe nothing.
NextLive ==
    \/ \E c \in peers : Connect(c) /\ UNCHANGED aside
    \/ \E c \in peers : ConnectAborted(c) /\ UNCHANGED aside
    \/ \E c \in peers : ConnectSequence(c) /\ UNCHANGED aside
    \/ \E c \in peers : PeerClose(c) /\ UNCHANGED aside
    \/ \E c \in peers : Cleanup(c) /\ UNCHANGED aside
    \/ \E c \in peers : RequestTask(c) /\ UNCHANGED aside
    \/ \E c \in peers : Heartbeat(c) /\ UNCHANGED aside
    \/ \E c \in peers : Malformed(c) /\ UNCHANGED aside
    \/ \E task_type \in TaskTypes :
          Submit(task_type, 1, MaxNodeTasks) /\ UNCHANGED aside

Resumed ==
    \A c \in Conns : /\ WF_vars(ConnectSequence(c) /\ UNCHANGED aside)
                     /\ WF_vars(Cleanup(c) /\ UNCHANGED aside)

SpecLive == Init /\ [][NextLive]_vars /\ Resumed

\* Nodes that keep asking for work: a peer whose connection is in its message
\* loop with the transport up sends request_task again and again, and the
\* server dispatches every frame it receives.  Submissions, results, closes
\* and new connections owe nothing.
NextDrain ==
    \/ \E c \in peers : Connect(c) /\ UNCHANGED aside
    \/ \E c \in peers : ConnectAborted(c) /\ UNCHANGED aside
    \/ \E c \in peers : ConnectSequence(c) /\ UNCHANGED aside
    \/ \E c \in peers : PeerClose(c) /\ UNCHANGED aside
    \/ \E c \in peers : Cleanup(c) /\ UNCHANGED aside
    \/ \E c \in peers : RequestTask(c) /\ UNCHANGED aside
    \/ \E c \in peers, task_id \in DOMAIN tasks, result \in Results :
          TaskResult(c, task_id, result, "absent") /\ UNCHANGED aside
    \/ \E task_type \in TaskTypes, priority \in 1..MaxPriority :
          Submit(task_type, priority, MaxDrain) /\ UNCHANGED aside

Requesting == \A c \in Conns : WF_vars(RequestTask(c) /\ UNCHANGED aside)

SpecDrain == Init /\ [][NextDrain]_vars /\ Requesting

\* ================================================================ PortManager
\* scripts/portfolio/deploy-portfolio.py, class PortManager
NodePortLimit == 32767
DefaultStartPort == 30000

\* the NodePorts that services on the cluster may hold when the PortManager
\* is constructed, the start_port arguments and the nodePort values of the
\* manifests
ClusterPorts == {DefaultStartPort, DefaultStartPort + 1, NodePortLimit}
StartPorts == {DefaultStartPort, NodePortLimit, NodePortLimit + 1}
ManifestPorts == {DefaultStartPort, DefaultStartPort + 1}

\* a manifest is given by the nodePort values of its port specs, in order; a
\* manifest that is no NodePort Service, or has no nodePort, by <<>>
Manifests ==
    {<<>>} \cup {<<a>> : a \in ManifestPorts}
           \cup {<<a, b>> : a \in ManifestPorts, b \in ManifestPorts}

\* everything but the PortManager
coordinator == <<peers, nodes, nodeOrder, tasks, task_queue, connections, avail, now,
                 pc, open, handouts, lastOut, lastReq, race, bcast, registrations>>

\* __init__ and _load_used_ports, lines 85-99: ports is what the cluster has
\* in use, ok whether the kubectl command succeeded (returncode == 0)
PortManagerInit(ports, ok) ==
    /\ pm.pc = "new"
    /\ pm' = [pm EXCEPT !.pc = "idle",
                        !.cluster = ports,
                        !.used_ports = IF ok THEN ports ELSE {}]

\* line 104, the while test
Busy(port, used_ports) == port \in used_ports \/ port > NodePortLimit

\* line 105, port += 1.  Python integers do not overflow; the values above
\* NodePortLimit + MaxOver, which the while test cannot tell apart, are
\* folded onto NodePortLimit + 1.
NextPort(port) ==
    IF port >= NodePortLimit + 1 + MaxOver THEN NodePortLimit + 1 ELSE port + 1

\* resolve_port_conflicts, lines 117-123: the loop over the port specs, up to
\* the next call of get_available_port or to its end.  A nodePort that is not
\* in used_ports is kept and is not added to used_ports.
RECURSIVE Resolved(_)
Resolved(m) ==
    IF m.todo = <<>>
    THEN [m EXCEPT !.pc = "idle", !.caller = "none"]
    ELSE IF Head(m.todo) \in m.used_ports
         THEN [m EXCEPT !.pc = "loop", !.port = DefaultStartPort,
                        !.before = m.used_ports, !.caller = "resolve"]
         ELSE Resolved([m EXCEPT !.out = Append(@, Head(m.todo)),
                                 !.todo = Tail(@)])

\* lines 107-108: get_available_port returns m.port, to its caller
Returned(m) ==
    LET port == m.port
        base == [m EXCEPT !.used_ports = @ \cup {port},
                          !.returned = Append(@, [port |-> port,
                                                  fresh |-> port \notin m.before])]
    IN IF m.caller = "get"
       THEN [base EXCEPT !.pc = "idle", !.caller = "none"]
       ELSE Resolved([base EXCEPT !.out = Append(@, port), !.todo = Tail(@)])

\* get_available_port(start_port) is called: line 103
GetAvailablePort(start_port) ==
    /\ pm.pc = "idle"
    /\ Len(pm.returned) < MaxGets
    /\ pm' = [pm EXCEPT !.pc = "loop", !.port = start_port,
                        !.before = pm.used_ports, !.caller = "get"]

\* one evaluation of the while test of get_available_port and what follows
\* it: lines 104-108
PortLoop ==
    /\ pm.pc = "loop"
    /\ pm' = IF Busy(pm.port, pm.used_ports)
             THEN [pm EXCEPT !.port = NextPort(@)]
             ELSE Returned(pm)

\* resolve_port_conflicts(manifest_content, project_name) is called
ResolvePortConflicts(manifest) ==
    /\ pm.pc = "idle"
    /\ pm.manifests < MaxManifests
    /\ pm' = Resolved([pm EXCEPT !.todo = manifest, !.manifests = @ + 1])

NextPorts ==
    \/ \E ports \in SUBSET ClusterPorts, ok \in BOOLEAN :
          PortManagerInit(ports, ok) /\ UNCHANGED coordinator
    \/ \E start_port \in StartPorts :
          GetAvailablePort(start_port) /\ UNCHANGED coordinator
    \/ PortLoop /\ UNCHANGED coordinator
    \/ \E manifest \in Manifests :
          ResolvePortConflicts(manifest) /\ UNCHANGED coordinator

\* the interpreter goes on executing a loop that it is in
Running == WF_vars(PortLoop /\ UNCHANGED coordinator)

SpecPorts == InitQueue /\ [][NextPorts]_vars /\ Running

\* ===================================================================== claims
Range(q) == {q[i] : i \in 1..Len(q)}

Min(a, b) == IF a < b THEN a ELSE b

\* the tasks whose assign_task pop happened in this step
PoppedNow == {t \in DOMAIN handouts' :
                 handouts'[t] > (IF Has(handouts, t) THEN handouts[t] ELSE 0)}

\* C1: over every interleaving of connect-time offers, request_task frames
\* and submit-triggered assignments, a task id is popped and handed out at
\* most once.
C1_AtMostOneAssignment == \A t \in DOMAIN handouts : handouts[t] <= 1

\* C1 witness: both tasks have been handed out, to two different nodes.
C1_Witness ==
    /\ DOMAIN tasks = {1, 2}
    /\ handouts[1] = 1 /\ handouts[2] = 1
    /\ tasks[1].assigned_to # None /\ tasks[2].assigned_to # None
    /\ tasks[1].assigned_to # tasks[2].assigned_to

\* the nodes of the current round whose request_task popped a task
RaceGot == {n \in DOMAIN race.out : race.out[n] # NoTaskId}

\* C2: when N nodes have each sent one request_task against a queue of M
\* pending tasks with no other change of the queue in between, exactly
\* min(M, N) of the calls popped a task (M of them when M < N), the others
\* ended in the no_tasks branch, and the popped ids are pairwise distinct.
C2_ExactlyMAssigned ==
    LET N == Cardinality(DOMAIN race.out)
        M == race.m
    IN /\ Cardinality(RaceGot) = Min(M, N)
       /\ Cardinality((DOMAIN race.out) \ RaceGot) = N - Min(M, N)
       /\ \A a \in RaceGot, b \in RaceGot : a # b => race.out[a] # race.out[b]
       /\ \A a \in RaceGot : handouts[race.out[a]] = 1

\* C2 witness: two nodes raced for one pending task; one got it, one got
\* no_tasks.
C2_Witness ==
    /\ race.m = 1
    /\ Cardinality(DOMAIN race.out) = 2
    /\ Cardinality(RaceGot) = 1

\* priority descending, equal priorities in submission (id) order
Before(t, u, ts) ==
    \/ ts[t].priority > ts[u].priority
    \/ ts[t].priority = ts[u].priority /\ t < u

QueueSorted(q, ts) ==
    \A i \in 1..Len(q), j \in 1..Len(q) : i < j => Before(q[i], q[j], ts)

\* C3: after every step the pending queue is ordered by priority descending
\* with equal priorities in submission order, and a task popped by an
\* assignment goes before every task that stays queued.
C3_PriorityOrder ==
    [][/\ QueueSorted(task_queue', tasks')
       /\ \A t \in PoppedNow : \A u \in Range(task_queue') : Before(t, u, tasks')]_vars

\* C3 witness: A(2), B(1), C(2) were submitted in that order, the queue is
\* [A, C, B].
C3_Witness ==
    /\ DOMAIN tasks = {1, 2, 3}
    /\ tasks[1].priority = 2 /\ tasks[2].priority = 1 /\ tasks[3].priority = 2
    /\ task_queue = <<1, 3, 2>>

\* C4: no step takes a task from assigned back to pending, or from completed
\* or failed to any other status.
C4_StatusMonotonic ==
    [][\A t \in DOMAIN tasks :
          /\ ~(tasks[t].status = "assigned" /\ tasks'[t].status = "pending")
          /\ tasks[t].status \in {"completed", "failed"}
                => tasks'[t].status = tasks[t].status]_vars

\* C5: the pending queue holds exactly the ids of the tasks whose status is
\* pending.
C5_QueueIsPending ==
    Range(task_queue) = {t \in DOMAIN tasks : tasks[t].status = "pending"}

\* C6: a task whose status is assigned has an assignee that is a node of the
\* registry, and its id is not in the pending queue.
C6_AssignedHasAssignee ==
    \A t \in DOMAIN tasks :
        tasks[t].status = "assigned"
            => /\ tasks[t].assigned_to \in DOMAIN nodes
               /\ t \notin Range(task_queue)

\* C6 witness: a task is assigned while another one is still queued.
C6_Witness ==
    /\ \E t \in DOMAIN tasks : tasks[t].status = "assigned"
    /\ task_queue # <<>>

\* C7: assignment is applied only to a task that is pending at that moment;
\* a task that is already assigned, completed or failed is never popped and
\* bound and keeps its status and assignee.
C7_AssignOnlyPending ==
    [][\A t \in DOMAIN tasks :
          tasks[t].status # "pending"
              => /\ t \notin PoppedNow
                 /\ tasks'[t].status = "assigned" => tasks[t].status = "assigned"]_vars

\* C8: a task_result naming a task id that is not in the task store changes
\* no task, no queue entry, no node record (tasks_completed included) and no
\* channel mapping, writes no frame, and leaves the handler in its message
\* loop.
C8_UnknownResultIgnored ==
    [][(lastReq'.kind = "task_result" /\ ~Has(tasks, lastReq'.task_id))
          => /\ tasks' = tasks
             /\ task_queue' = task_queue
             /\ nodes' = nodes
             /\ connections' = connections
             /\ lastOut' = <<>>
             /\ pc' = pc /\ pc'[lastReq'.conn] = "active"
             /\ open' = open]_vars

\* C8 witness: a result for a never-issued id has just been handled by a node
\* that holds an assigned task.
C8_Witness ==
    /\ lastReq.kind = "task_result"
    /\ lastReq.task_id = StaleTaskId
    /\ \E t \in DOMAIN tasks : /\ tasks[t].status = "assigned"
                                /\ tasks[t].assigned_to = NodeOf(lastReq.conn)

\* a frame of the given type and task id was written to a websocket of node n
WrittenTo(out, n, type, task_id) ==
    \E i \in 1..Len(out) : /\ out[i].type = type
                            /\ out[i].task_id = task_id
                            /\ NodeOf(out[i].to) = n

\* C9: a task_result naming a known task id sets the status to completed
\* (success true or absent) or failed (success false), stores the result,
\* adds one to the sender's tasks_completed and is answered with a task_ack
\* for that id.
C9_KnownResultRecorded ==
    [][\A c \in Conns, t \in DOMAIN tasks, r \in Results,
          s \in {"true", "false", "absent"} :
          TaskResult(c, t, r, s)
              => /\ tasks'[t].status = IF s = "false" THEN "failed" ELSE "completed"
                 /\ tasks'[t].result = r
                 /\ nodes'[NodeOf(c)].tasks_completed
                        = nodes[NodeOf(c)].tasks_completed + 1
                 /\ WrittenTo(lastOut', NodeOf(c), "task_ack", t)]_vars

\* C10: a request_task that finds the pending queue empty is answered with
\* no_tasks, changes no task, queue, registry or channel-map state, and the
\* handler stays in its message loop.
C10_EmptyQueueNoTasks ==
    [][(lastReq'.kind = "request_task" /\ task_queue = <<>>)
          => /\ WrittenTo(lastOut', NodeOf(lastReq'.conn), "no_tasks", NoTaskId)
             /\ tasks' = tasks
             /\ task_queue' = task_queue
             /\ nodes' = nodes
             /\ connections' = connections
             /\ pc'[lastReq'.conn] = "active"]_vars

\* the frames of a step that were written to connection c
FramesTo(out, c) == SelectSeq(out, LAMBDA f : f.to = c)

OfferTypes == {"task_assignment", "no_tasks"}

\* the history labels of the steps that dispatch an inbound frame
InboundKinds == {"request_task", "task_result", "heartbeat", "capabilities",
                 "performance_update", "other_type", "malformed"}

\* the eager offer assign_task makes for the queue q
EagerOffer(c, q) ==
    IF q = <<>> THEN Frame(c, "no_tasks", NoTaskId)
                ELSE Frame(c, "task_assignment", Head(q))

\* C11: on every connection the outbound frames start with welcome, then the
\* cluster_registration frames, then exactly one eager offer (task_assignment
\* when the queue is non-empty at that moment, else no_tasks): until that
\* offer no other frame is written to the connection, and no inbound frame of
\* the connection is dispatched before.
C11_ConnectSequenceOrder ==
    [][\A c \in Conns :
          /\ (lastReq'.kind = "connect" /\ lastReq'.conn = c)
                => lastOut' = <<Frame(c, "welcome", NoTaskId)>>
          /\ pc[c] \in {"welcomed", "offering"}
                => /\ \A i \in 1..Len(lastOut') :
                         lastOut'[i].to = c
                            => /\ lastReq'.conn = c
                               /\ \/ /\ lastOut'[i].type = "cluster_registration"
                                     /\ pc[c] = "welcomed"
                                     /\ pc'[c] = "offering"
                                  \/ /\ lastOut'[i].type \in OfferTypes
                                     /\ pc'[c] = "active"
                   /\ (pc'[c] = "active" /\ open[c])
                         => FramesTo(lastOut', c) = <<EagerOffer(c, task_queue)>>
          /\ (lastReq'.kind \in InboundKinds /\ lastReq'.conn = c)
                => pc[c] = "active"]_vars

\* the part of a node record that a connect must preserve
History(node) ==
    [ip_address |-> node.ip_address, tasks_completed |-> node.tasks_completed,
     capabilities |-> node.capabilities, performance_score |-> node.performance_score,
     kubernetes_registered |-> node.kubernetes_registered,
     slurm_registered |-> node.slurm_registered]

\* C12: the registration of a connection from an address whose node is
\* already in the registry (lines 83-94) reuses the node id and the record:
\* tasks_completed, capabilities, performance score and the backend flags are
\* kept, only status (connected) and last_seen are written; the record does
\* not change while the node has no handler, and the connect sequence that
\* follows changes neither counter, capabilities nor score and clears no flag.
C12_ReconnectKeepsRecord ==
    [][\A c \in peers :
         LET n == NodeOf(c) IN
         Has(nodes, n)
            => /\ DOMAIN nodes' = DOMAIN nodes
               /\ (lastReq'.kind = "connect" /\ lastReq'.conn = c)
                     => /\ nodes'[n] = [nodes[n] EXCEPT !.status = "connected",
                                                         !.last_seen = now]
                        /\ connections'[n] = c
               /\ (pc[c] = "closed" /\ lastReq'.kind # "connect")
                     => History(nodes'[n]) = History(nodes[n])
               /\ pc[c] \in {"welcomed", "offering"}
                     => /\ nodes'[n].tasks_completed = nodes[n].tasks_completed
                        /\ nodes'[n].capabilities = nodes[n].capabilities
                        /\ nodes'[n].performance_score = nodes[n].performance_score
                        /\ nodes[n].kubernetes_registered
                              => nodes'[n].kubernetes_registered
                        /\ nodes[n].slurm_registered => nodes'[n].slurm_registered]_vars

\* C12 witness: a node that completed a task, reported capabilities and a
\* score and was registered to both backends has just reconnected, at a later
\* time.
C12_Witness ==
    /\ lastReq.kind = "connect"
    /\ LET node == nodes[NodeOf(lastReq.conn)] IN
        /\ node.tasks_completed = 1
        /\ node.capabilities = {"cpu"}
        /\ node.performance_score = -1
        /\ node.kubernetes_registered /\ node.slurm_registered
        /\ node.status = "connected"
        /\ node.last_seen = now /\ now > 0

\* the history labels of the steps in which a handler runs its finally block
EndKinds == {"cleanup", "malformed", "connect_aborted"}

\* C13: the disconnect step (the finally block) removes the channel mapping
\* of the node and sets its status to disconnected and changes nothing else:
\* every task keeps its status, assignee and result, the queue is unchanged,
\* and no other field of any node record and no other mapping changes.  (When
\* the welcome send fails, the registration of lines 83-94 is part of the
\* same step: it may add the record and writes last_seen.)
C13_DisconnectFrame ==
    [][lastReq'.kind \in EndKinds
          => LET n == NodeOf(lastReq'.conn) IN
             /\ ~Has(connections', n)
             /\ \A m \in (DOMAIN connections) \ {n} :
                   Has(connections', m) /\ connections'[m] = connections[m]
             /\ DOMAIN connections' \subseteq DOMAIN connections
             /\ nodes'[n].status = "disconnected"
             /\ tasks' = tasks
             /\ task_queue' = task_queue
             /\ IF lastReq'.kind = "connect_aborted"
                THEN /\ \A m \in DOMAIN nodes :
                           /\ History(nodes'[m]) = History(nodes[m])
                           /\ m # n => nodes'[m] = nodes[m]
                     /\ DOMAIN nodes' = (DOMAIN nodes) \cup {n}
                ELSE nodes' = [nodes EXCEPT ![n].status = "disconnected"]]_vars

\* C13 witness: the handler of a node has just ended while a task is assigned
\* to that node and the node has a completed task on its counter.
C13_Witness ==
    /\ lastReq.kind = "cleanup"
    /\ nodes[NodeOf(lastReq.conn)].tasks_completed = 1
    /\ \E t \in DOMAIN tasks : /\ tasks[t].status = "assigned"
                                /\ tasks[t].assigned_to = NodeOf(lastReq.conn)

\* C14: whenever a handler ends (closed channel, failed welcome send,
\* exception in message processing) its node is left disconnected and without
\* channel mapping, and a handler whose channel has closed does end.
C14_DisconnectRuns ==
    /\ [](lastReq.kind \in EndKinds
             => /\ ~Has(connections, NodeOf(lastReq.conn))
                /\ nodes[NodeOf(lastReq.conn)].status = "disconnected")
    /\ \A c \in Conns :
          (pc[c] # "closed" /\ ~open[c])
              ~> (lastReq.kind \in EndKinds /\ lastReq.conn = c)

\* C14 witness: a handler has just ended on an exception in message
\* processing while the other connection of the same address is still open.
C14_Witness ==
    /\ lastReq.kind = "malformed"
    /\ ~Has(connections, NodeOf(lastReq.conn))
    /\ nodes[NodeOf(lastReq.conn)].status = "disconnected"
    /\ \E c \in peers : c # lastReq.conn /\ pc[c] = "active" /\ open[c]

\* C15: an exception raised while a frame of connection c is processed ends
\* the handler of c only: no other node's record, status or channel mapping
\* changes, and every other handler stays where it is (in its message loop,
\* if it was there) with its channel as it was.
C15_FailureConfined ==
    [][lastReq'.kind = "malformed"
          => LET c == lastReq'.conn
                 n == NodeOf(c)
             IN /\ DOMAIN nodes' = DOMAIN nodes
                /\ \A m \in (DOMAIN nodes) \ {n} :
                      /\ nodes'[m] = nodes[m]
                      /\ Has(connections', m) = Has(connections, m)
                      /\ Has(connections, m) => connections'[m] = connections[m]
                /\ \A d \in Conns \ {c} : pc'[d] = pc[d] /\ open'[d] = open[d]]_vars

\* C15 witness: the handler of one node has just ended on an exception while
\* another node is connected, mapped and in its message loop.
C15_Witness ==
    /\ lastReq.kind = "malformed"
    /\ \E d \in peers :
          /\ NodeOf(d) # NodeOf(lastReq.conn)
          /\ pc[d] = "active" /\ open[d]
          /\ Has(connections, NodeOf(d)) /\ connections[NodeOf(d)] = d
          /\ nodes[NodeOf(d)].status = "connected"

\* C16: an inbound frame whose type is missing or names no branch of
\* handle_message changes no node record, task, queue entry or channel
\* mapping, is not answered, and leaves the handler in its message loop.
C16_OtherTypeDropped ==
    [][lastReq'.kind = "other_type"
          => /\ nodes' = nodes
             /\ tasks' = tasks
             /\ task_queue' = task_queue
             /\ connections' = connections
             /\ lastOut' = <<>>
             /\ pc' = pc /\ pc'[lastReq'.conn] = "active"
             /\ open' = open]_vars

\* C16 witness: a frame of unknown type has just been dropped, sent by a node
\* whose last_seen is older than the clock and that holds an assigned task.
C16_Witness ==
    /\ lastReq.kind = "other_type"
    /\ nodes[NodeOf(lastReq.conn)].last_seen < now
    /\ \E t \in DOMAIN tasks : /\ tasks[t].status = "assigned"
                                /\ tasks[t].assigned_to = NodeOf(lastReq.conn)

\* C17: a malformed inbound frame (not JSON, or not a JSON object) changes no
\* task and no queue entry, and the sender's connection is not closed and
\* its node is not marked disconnected: the handler stays in its message loop
\* with its mapping in place.
C17_MalformedSwallowed ==
    [][lastReq'.kind = "malformed"
          => LET c == lastReq'.conn IN
             /\ tasks' = tasks
             /\ task_queue' = task_queue
             /\ pc'[c] = "active"
             /\ open'[c]
             /\ nodes'[NodeOf(c)].status = nodes[NodeOf(c)].status
             /\ connections' = connections]_vars

\* C18: a heartbeat writes the sender's last_seen and nothing else, and is
\* answered with a heartbeat_ack; neither a heartbeat nor time passing
\* without one changes the status of any node.
C18_HeartbeatTouchesOnly ==
    [][/\ lastReq'.kind = "heartbeat"
             => LET n == NodeOf(lastReq'.conn) IN
                /\ nodes' = [nodes EXCEPT ![n].last_seen = now]
                /\ tasks' = tasks
                /\ task_queue' = task_queue
                /\ connections' = connections
                /\ WrittenTo(lastOut', n, "heartbeat_ack", NoTaskId)
       /\ lastReq'.kind = "tick" => nodes' = nodes]_vars

\* C19: the status of a node goes from connected to disconnected only in a
\* step in which the handler of one of that node's connections runs its
\* closing path (lines 113-122) and ends with that connection closed; the
\* clock, frames of other nodes, submissions and failed sends never do it.
C19_NoLivenessExpiry ==
    [][\A n \in DOMAIN nodes :
          (nodes[n].status = "connected" /\ nodes'[n].status = "disconnected")
              => /\ lastReq'.kind \in EndKinds
                 /\ NodeOf(lastReq'.conn) = n
                 /\ pc'[lastReq'.conn] = "closed"
                 /\ ~open'[lastReq'.conn]]_vars

\* C19 witness: a node is still connected although its last_seen is older
\* than the clock and another node has just sent a heartbeat.
C19_Witness ==
    /\ lastReq.kind = "heartbeat"
    /\ \E m \in DOMAIN nodes :
          /\ m # NodeOf(lastReq.conn)
          /\ nodes[m].status = "connected"
          /\ nodes[m].last_seen < now

\* a send_to_node call for node_id finds no mapping, or its write fails
SendFails(conns, node_id) ==
    ~Has(conns, node_id) \/ ~open[conns[node_id]]

\* C20: a send_to_node whose write fails or whose target has no channel
\* mapping writes nothing, raises nothing to its caller (the calling handler
\* goes on as after a successful send) and leaves registry, tasks, queue and
\* channel mappings as its caller left them: after a heartbeat only last_seen
\* has changed, after a request_task on an empty queue nothing has.
C20_SendBestEffort ==
    [][(lastReq'.kind \in {"heartbeat", "request_task"}
           /\ SendFails(connections, NodeOf(lastReq'.conn)))
          => LET c == lastReq'.conn
                 n == NodeOf(c)
             IN /\ lastOut' = <<>>
                /\ pc' = pc /\ pc'[c] = "active"
                /\ open' = open
                /\ connections' = connections
                /\ lastReq'.kind = "heartbeat"
                      => /\ nodes' = [nodes EXCEPT ![n].last_seen = now]
                         /\ tasks' = tasks
                         /\ task_queue' = task_queue
                /\ (lastReq'.kind = "request_task" /\ task_queue = <<>>)
                      => /\ nodes' = nodes
                         /\ tasks' = tasks
                         /\ task_queue' = task_queue]_vars

\* C20 witness: the heartbeat_ack of an open connection has just been sent to
\* the closed channel that a later connection from the same address left in
\* the channel map.
C20_Witness ==
    /\ lastReq.kind = "heartbeat"
    /\ open[lastReq.conn]
    /\ Has(connections, NodeOf(lastReq.conn))
    /\ ~open[connections[NodeOf(lastReq.conn)]]
    /\ lastOut = <<>>

\* C21 as stated: every node id that had a channel mapping when the
\* broadcast started gets a send attempt.
C21_EverySnapshotNodeAttempted ==
    \A i \in 1..Len(bcast.done) : bcast.done[i].outcome # "unmapped"

\* C21: a broadcast visits every node id that had a channel mapping when it
\* started, each once, and a send that fails does not end the loop: the node
\* ids after it are still visited.  A visited node gets one send attempt
\* when it is still mapped at its turn, and one frame when that send
\* succeeds; a node whose mapping was removed meanwhile is passed over.
C21_BroadcastVisitsAll ==
    /\ Len(bcast.done) + Len(bcast.todo) = Cardinality(bcast.snapshot)
    /\ {bcast.done[i].node : i \in 1..Len(bcast.done)} \cup Range(bcast.todo)
           = bcast.snapshot
    /\ ~bcast.running => bcast.todo = <<>>
    /\ \A i \in 1..Len(bcast.done) :
          bcast.done[i].outcome \in {"sent", "failed", "unmapped"}
    /\ lastReq.kind \in {"broadcast", "broadcast_next"} /\ bcast.done # <<>> =>
          LET last == bcast.done[Len(bcast.done)]
          IN /\ Len(lastOut) = (IF last.outcome = "sent" THEN 1 ELSE 0)
             /\ \A k \in 1..Len(lastOut) :
                   /\ lastOut[k].type = "broadcast"
                   /\ NodeOf(lastOut[k].to) = last.node

\* C21 witness: a broadcast over two mapped nodes has finished; its first send
\* failed and its second send was made and succeeded.
C21_Witness ==
    /\ ~bcast.running
    /\ Len(bcast.done) = 2
    /\ bcast.done[1].outcome = "failed"
    /\ bcast.done[2].outcome = "sent"

\* the step is the connect sequence of c: auto_register_to_clusters ran for
\* the node of c (and the eager offer too, when no frame was sent)
AutoRegisterStep(c) ==
    /\ pc[c] = "welcomed"
    /\ lastReq'.kind \in {"auto_register", "offer"}
    /\ lastReq'.conn = c
    /\ registrations'.last.conn = c

\* C22 as stated: for each node and each backend the register operation is
\* called at most once over the whole run, whatever the first call returned.
C22_RegisterAtMostOnce ==
    \A n \in NodeIds :
       /\ registrations.calls[n].kubernetes <= 1
       /\ registrations.calls[n].slurm <= 1

\* the frames of a step that report a registration outcome for a backend
Reports(out, c, cluster_type) ==
    SelectSeq(out, LAMBDA f : /\ f.to = c
                              /\ f.type = "cluster_registration"
                              /\ f.cluster_type = cluster_type)

\* C23 as stated: in the connect sequence of a connection that is open and
\* mapped, every backend that is available and not yet registered for the
\* node gets a cluster_registration frame naming it, whether the attempt
\* succeeded or failed.
C23_OutcomeReported ==
    [][\A c \in Conns :
          (/\ AutoRegisterStep(c)
           /\ open[c]
           /\ Has(connections, NodeOf(c))
           /\ connections[NodeOf(c)] = c)
          => LET node == nodes[NodeOf(c)] IN
             /\ (avail.kubernetes /\ ~node.kubernetes_registered)
                   => Reports(lastOut', c, "kubernetes") # <<>>
             /\ (avail.slurm /\ ~node.slurm_registered)
                   => Reports(lastOut', c, "slurm") # <<>>]_vars

NotRegistered == {"failed", "unavailable"}

\* C24: a backend registration that fails (register_to_* returns False, or
\* SLURM is refused for want of MUNGE) leaves the node's flag for that
\* backend false, changes neither the node's status nor its channel mapping
\* nor the connection and does not end the handler: the eager offer is made
\* in the same step when no frame was sent, and otherwise the handler stands
\* right before it (Offer is its next step).
C24_FailureNonFatal ==
    [][\A c \in Conns :
          AutoRegisterStep(c)
          => LET n == NodeOf(c)
                 last == registrations'.last
             IN /\ last.kubernetes = "failed" => ~nodes'[n].kubernetes_registered
                /\ last.slurm \in NotRegistered => ~nodes'[n].slurm_registered
                /\ (last.kubernetes = "failed" \/ last.slurm \in NotRegistered)
                     => /\ nodes'[n].status = nodes[n].status
                        /\ nodes'[n].status = "connected"
                        /\ connections' = connections
                        /\ open' = open
                        /\ pc'[c] \in {"offering", "active"}
                        /\ (pc'[c] = "active" /\ open[c] /\ Has(connections, n))
                              => lastOut' = <<EagerOffer(connections[n], task_queue)>>]_vars

\* C24 witness: the Kubernetes registration of c1's node failed, the flag is
\* false, the node is connected and its eager offer was made in that step.
C24_Witness ==
    /\ registrations.last.conn = "c1"
    /\ registrations.last.kubernetes = "failed"
    /\ lastReq = Step("offer", "c1", NoTaskId)
    /\ ~nodes[NodeOf("c1")].kubernetes_registered
    /\ nodes[NodeOf("c1")].status = "connected"
    /\ pc["c1"] = "active"
    /\ lastOut = <<Frame("c1", "no_tasks", NoTaskId)>>

\* C25: every state of the model is a point where another handler or an HTTP
\* read can run (an action is the code between two awaits).  In none of them
\* is a task in status pending while its id is absent from the pending
\* queue.
C25_NoMidTransition ==
    \A t \in DOMAIN tasks :
        tasks[t].status = "pending" => t \in Range(task_queue)

\* C25 witness: the last step popped task 1 and bound it, task 2 is still
\* pending behind it.
C25_Witness ==
    /\ lastReq.task_id = 1
    /\ lastReq.kind \in {"offer", "request_task", "submit"}
    /\ DOMAIN tasks = {1, 2}
    /\ tasks[1].status = "assigned"
    /\ tasks[2].status = "pending"
    /\ task_queue = <<2>>

\* C26: the registry and the task store only grow: no step removes a node id
\* from self.nodes or a task id from self.tasks, be it a disconnect, a
\* result or a further submission.
C26_StoresOnlyGrow ==
    [][/\ DOMAIN nodes \subseteq DOMAIN nodes'
       /\ DOMAIN tasks \subseteq DOMAIN tasks']_vars

\* C26 witness: a node has disconnected and is still in the registry; a task
\* got its result, a further one was submitted, and both are in the store.
C26_Witness ==
    /\ \E n \in DOMAIN nodes : nodes[n].status = "disconnected"
    /\ \E t \in DOMAIN tasks : tasks[t].status \in {"completed", "failed"}
    /\ lastReq.kind = "submit"
    /\ Cardinality(DOMAIN tasks) = 2

\* a step that leaves tasks, queue, channel map and handlers alone and writes
\* no frame
Quiet ==
    /\ UNCHANGED <<tasks, task_queue, connections, nodeOrder, pc, open, handouts>>
    /\ lastOut' = <<>>

\* C27: a capabilities frame replaces the sender's capability set by the
\* frame's list (the empty one when the frame has none) and a
\* performance_update replaces the sender's score by the frame's score as it
\* is (0 when absent).  Nothing else of the sender's record, no other node's
\* record, no task and not the queue is changed, and no frame is written.
C27_RecordOnlyUpdates ==
    [][\A c \in Conns, present \in BOOLEAN :
          LET n == NodeOf(c) IN
          /\ \A capabilities \in CapabilityLists :
                Capabilities(c, present, capabilities)
                => /\ nodes' = [nodes EXCEPT ![n].capabilities =
                                   IF present THEN capabilities ELSE {}]
                   /\ Quiet
          /\ \A score \in Scores :
                PerformanceUpdate(c, present, score)
                => /\ nodes' = [nodes EXCEPT ![n].performance_score =
                                   IF present THEN score ELSE 0]
                   /\ Quiet]_vars

\* C27 witness: a node has sent its capability list and then a negative
\* score; both are in its record.
C27_Witness ==
    /\ lastReq.kind = "performance_update"
    /\ \E n \in DOMAIN nodes :
          /\ n = NodeOf(lastReq.conn)
          /\ nodes[n].capabilities = {"cpu"}
          /\ nodes[n].performance_score = -1

\* C28: a POST /submit_task with a task_type adds exactly one id to the task
\* store, an id no task had before, and that id is the one returned.  The
\* task is created pending, with no assignee and no result, and queued; it is
\* still so after the request unless the request's own immediate assignment
\* popped it (then it is bound to the first connected node).  No other task's
\* type or priority changes.  A POST without task_type is answered with an
\* error and changes no task, queue, node or channel and writes no frame.
C28_SubmitCreatesOne ==
    [][/\ lastReq'.kind = "submit"
          => LET id == lastReq'.task_id IN
             /\ id \notin DOMAIN tasks
             /\ DOMAIN tasks' = DOMAIN tasks \cup {id}
             /\ \A t \in DOMAIN tasks :
                   /\ tasks'[t].task_type = tasks[t].task_type
                   /\ tasks'[t].priority = tasks[t].priority
             /\ \E task_type \in TaskTypes, priority \in 1..MaxPriority :
                   LET a == AddTask(task_queue, tasks, task_type, priority) IN
                   /\ a.task_id = id
                   /\ a.tasks[id] = NewTask(task_type, priority)
                   /\ a.tasks[id].status = "pending"
                   /\ a.tasks[id].assigned_to = None
                   /\ \A t \in DOMAIN tasks : a.tasks[t] = tasks[t]
                   /\ Len(a.queue) = Len(task_queue) + 1
                   /\ Range(a.queue) = Range(task_queue) \cup {id}
                   /\ IF handouts'[id] = 0
                      THEN /\ tasks'[id] = NewTask(task_type, priority)
                           /\ id \in Range(task_queue')
                      ELSE /\ tasks'[id] = [NewTask(task_type, priority) EXCEPT
                                               !.status = "assigned",
                                               !.assigned_to = Head(ConnectedNodes)]
                           /\ id = Head(a.queue)
       /\ lastReq'.kind = "submit_rejected"
          => /\ UNCHANGED <<tasks, task_queue, nodes, nodeOrder, connections, pc,
                            open, handouts>>
             /\ lastOut' = <<>>]_vars

\* C28 witness: the second submission was just made: task 2 is new, pending
\* and unassigned in the queue, task 1 is still in the store.
C28_Witness ==
    /\ lastReq = Step("submit", None, 2)
    /\ DOMAIN tasks = {1, 2}
    /\ tasks[2].status = "pending"
    /\ tasks[2].assigned_to = None
    /\ 2 \in Range(task_queue)

\* C29: the probe results kubernetes_available, slurm_available and
\* munge_available are set when the coordinator is constructed and no step
\* changes them: no connect, frame, submission or failed registration.
C29_AvailabilityConstant ==
    [][avail' = avail]_vars

\* C29 witness: a SLURM registration has just failed on a host where SLURM
\* and MUNGE were found, and both are still reported available.
C29_Witness ==
    /\ registrations.last.slurm = "failed"
    /\ lastReq.kind \in {"auto_register", "offer"}
    /\ lastReq.conn = registrations.last.conn
    /\ avail.slurm
    /\ avail.munge

\* C30 as stated: as long as a connection accepted from a node's address is
\* still open (its handler runs and its transport is up), the node has a
\* channel mapping and is marked connected, also when another connection of
\* the same address has closed meanwhile.
C30_ConnectedWhileOpen ==
    \A c \in peers :
        (pc[c] # "closed" /\ open[c])
            => /\ Has(connections, NodeOf(c))
               /\ nodes[NodeOf(c)].status = "connected"

\* a task_assignment frame for task t is among the frames out, written to a
\* connection of node n
OfferedTo(out, t, n) ==
    \E i \in 1..Len(out) :
        /\ out[i].type = "task_assignment"
        /\ out[i].task_id = t
        /\ NodeOf(out[i].to) = n

\* C31 as stated: whenever a step marks a task assigned, that step wrote a
\* task_assignment frame carrying the task's id to a connection of the
\* assignee; no task is marked assigned when the node has no channel mapping
\* or the write fails.
C31_AssignedWasOffered ==
    [][\A t \in DOMAIN tasks' :
          (/\ tasks'[t].status = "assigned"
           /\ (t \in DOMAIN tasks => tasks[t].status # "assigned"))
          => OfferedTo(lastOut', t, tasks'[t].assigned_to)]_vars

\* C32 as stated: a task_result frame from a node changes a task's status and
\* result only if the task is assigned to that node at that moment; a result
\* for a task that is pending, finished or assigned to another node leaves
\* the task as it is.
C32_ResultOnlyFromAssignee ==
    [][\A c \in Conns, t \in DOMAIN tasks :
          (/\ lastReq' = Step("task_result", c, t)
           /\ ~(tasks[t].status = "assigned" /\ tasks[t].assigned_to = NodeOf(c)))
          => tasks'[t] = tasks[t]]_vars

\* the tasks that were ever assigned to node n: a task is bound once, when it
\* is popped, and its assignee is not written again
AssignedEver(n) == {t \in DOMAIN tasks : tasks[t].assigned_to = n}

\* C33 as stated: a node's tasks_completed counter is at most the number of
\* distinct tasks that were ever assigned to that node.
C33_CounterBounded ==
    \A n \in DOMAIN nodes :
        nodes[n].tasks_completed <= Cardinality(AssignedEver(n))

\* the node for which the assign_task call of the step ran: the node of the
\* connection for an eager offer or a request_task, the first connected node
\* of the registry for a submission
AssignStepNode ==
    IF lastReq'.kind = "submit" THEN Head(ConnectedNodes)
                                ELSE NodeOf(lastReq'.conn)

\* C34: an assignee, once set, is never changed or cleared, whatever request,
\* result, disconnect or reconnect follows; and when a step sets it, it is
\* set to the node for which that step's assign_task call ran.
C34_AssigneeStable ==
    [][\A t \in DOMAIN tasks' :
          IF t \in DOMAIN tasks /\ tasks[t].assigned_to # None
          THEN tasks'[t].assigned_to = tasks[t].assigned_to
          ELSE tasks'[t].assigned_to # None
               => /\ lastReq'.kind \in {"offer", "request_task", "submit"}
                  /\ lastReq'.kind = "submit" => ConnectedNodes # <<>>
                  /\ tasks'[t].assigned_to = AssignStepNode]_vars

\* C34 witness: a task bound to a node that has disconnected since has just
\* been reported by another node, and is still bound to the first.
C34_Witness ==
    /\ lastReq.kind = "task_result"
    /\ \E t \in DOMAIN tasks :
          /\ lastReq.task_id = t
          /\ tasks[t].assigned_to \in DOMAIN nodes
          /\ tasks[t].assigned_to # NodeOf(lastReq.conn)
          /\ nodes[tasks[t].assigned_to].status = "disconnected"
          /\ tasks[t].status = "failed"

\* C35: in every state (every point between two awaits) the channel map and
\* the registry agree: a node id has a channel mapping exactly when it is in
\* the registry with status connected.
C35_MapAgreesWithStatus ==
    \A n \in NodeIds :
        Has(connections, n) <=> (Has(nodes, n) /\ nodes[n].status = "connected")

\* C35 witness: of two connections from one address the later has ended; the
\* earlier is still open, and its node is unmapped and marked disconnected.
C35_Witness ==
    /\ peers = {"c1", "c2"}
    /\ pc["c1"] = "active"
    /\ open["c1"]
    /\ pc["c2"] = "closed"
    /\ lastReq = Step("cleanup", "c2", NoTaskId)
    /\ ~Has(connections, NodeOf("c1"))
    /\ nodes[NodeOf("c1")].status = "disconnected"

\* C36: submissions stop (at most MaxDrain are made).  If a connection stays
\* in its message loop with the transport up from some point on, and so
\* keeps sending request_task, then every task that is in the pending queue
\* is eventually assigned and the queue is eventually empty for good.
C36_QueueDrains ==
    \A c \in Conns :
        <>[](pc[c] = "active" /\ open[c])
        => /\ <>[](task_queue = <<>>)
           /\ \A t \in 1..MaxDrain :
                 (t \in Range(task_queue))
                     ~> (Has(tasks, t) /\ tasks[t].status = "assigned")

\* C36 witness: the last of the submitted tasks has just been popped by a
\* request_task, and the queue is empty.
C36_Witness ==
    /\ lastReq.kind = "request_task"
    /\ lastReq.task_id = MaxDrain
    /\ Cardinality(DOMAIN tasks) = MaxDrain
    /\ \A t \in DOMAIN tasks : handouts[t] = 1
    /\ tasks[MaxDrain].status = "assigned"
    /\ task_queue = <<>>

\* the position in the registry of the first node whose status is connected
\* (0 when there is none)
FirstConnected ==
    LET S == {i \in 1..Len(nodeOrder) : nodes[nodeOrder[i]].status = "connected"}
    IN IF S = {} THEN 0 ELSE CHOOSE i \in S : \A j \in S : i <= j

\* C37: a POST /submit_task that finds a node in status connected makes
\* exactly one assignment in the same step: the head of the queue as it is
\* with the new task in it, a task no queued one goes before (it need not be
\* the new task), is popped and bound to the first connected node in registry
\* order.  With no connected node nothing is popped, the new task is pending
\* and the queue is longer by one.
C37_SubmitAssignsHead ==
    [][lastReq'.kind = "submit"
       => \E task_type \in TaskTypes, priority \in 1..MaxPriority :
             LET a == AddTask(task_queue, tasks, task_type, priority)
                 id == lastReq'.task_id
                 head == Head(a.queue)
             IN /\ a.task_id = id
                /\ IF FirstConnected # 0
                   THEN /\ PoppedNow = {head}
                        /\ handouts'[head] = 1
                        /\ task_queue' = Tail(a.queue)
                        /\ tasks' = [a.tasks EXCEPT
                                       ![head].status = "assigned",
                                       ![head].assigned_to = nodeOrder[FirstConnected]]
                        /\ \A u \in Range(task_queue') : Before(head, u, tasks')
                   ELSE /\ PoppedNow = {}
                        /\ tasks' = a.tasks
                        /\ tasks'[id] = NewTask(task_type, priority)
                        /\ Len(task_queue') = Len(task_queue) + 1
                        /\ id \in Range(task_queue')
                        /\ lastOut' = <<>>]_vars

\* C37 witness: a node is connected and the submission of task 2 has just
\* made the one assignment, of the older task 1; task 2 is queued.
C37_Witness ==
    /\ lastReq = Step("submit", None, 2)
    /\ FirstConnected # 0
    /\ tasks[1].status = "assigned"
    /\ tasks[1].assigned_to = nodeOrder[FirstConnected]
    /\ tasks[2].status = "pending"
    /\ task_queue = <<2>>

\* C38 as stated: at every point where GET /status can be served, the
\* counters it reports agree with the task store: pending is the number of
\* tasks in status pending, completed the number in status completed, total
\* the number of tasks ever submitted.
C38_CountersConsistent ==
    /\ GetClusterStatus.pending
          = Cardinality({t \in DOMAIN tasks : tasks[t].status = "pending"})
    /\ GetClusterStatus.completed
          = Cardinality({t \in DOMAIN tasks : tasks[t].status = "completed"})
    /\ GetClusterStatus.total = Cardinality(DOMAIN handouts)

\* C39 as stated: every call of get_available_port returns, whatever
\* start_port and used_ports are; a returned port was not in used_ports before
\* the call and is at most 32767, and no port is returned twice.
C39_PortReturned ==
    /\ [](\A i \in 1..Len(pm.returned) :
             /\ pm.returned[i].fresh
             /\ pm.returned[i].port <= NodePortLimit
             /\ \A j \in 1..Len(pm.returned) :
                   i # j => pm.returned[i].port # pm.returned[j].port)
    /\ (pm.pc = "loop") ~> (pm.pc # "loop")

\* C40 as stated: when resolve_port_conflicts is not running, the nodePort
\* values of the manifests it has processed are pairwise different, and none
\* of them is a port that was in use on the cluster when the PortManager was
\* constructed.
C40_NoPortTwice ==
    pm.pc = "idle"
    => /\ \A i \in 1..Len(pm.out), j \in 1..Len(pm.out) :
             i # j => pm.out[i] # pm.out[j]
       /\ \A i \in 1..Len(pm.out) : pm.out[i] \notin pm.cluster

====
